---- MODULE Spec2Model ----
(***************************************************************************)
(* Dew Point integration for Home Assistant: the unit normalizer           *)
(* (_parse_temp_state, _parse_hum_state), the Arden Buck calculator        *)
(* (_calculate_dew_point_arden_buck) and the update controller             *)
(* (DewPointSensor), together with the configuration flows that feed it.   *)
(*                                                                         *)
(* Python floats are modelled as decimal fixed-point numbers with four     *)
(* fractional digits (the integer n stands for n / Scale), plus the IEEE   *)
(* specials nan, inf and -inf.  A value is a record [k, v]:                *)
(*   k = "none"  Python None            k = "num"  the number v / Scale    *)
(*   k = "nan"   not-a-number           k = "inf"  infinity of sign v      *)
(*   k = "log"   the positive double e^(v / Scale), below the grid         *)
(* and, for the result of a computation that raises, k is the name of the  *)
(* exception ("ZeroDivisionError", "OverflowError").                       *)
(***************************************************************************)
EXTENDS Integers, Sequences, FiniteSets, TLC

Scale == 100 * 100

None == [k |-> "none", v |-> 0]
NaN == [k |-> "nan", v |-> 0]
Inf(s) == [k |-> "inf", v |-> s]
Num(n) == [k |-> "num", v |-> n]
Raise(e) == [k |-> e, v |-> 0]
\* A positive double too small for the fixed-point grid, by its logarithm:
\* Log(l) is e^(l / Scale).
Log(l) == [k |-> "log", v |-> l]

IsNum(x) == x.k = "num"
IsRaise(x) == x.k \in {"ZeroDivisionError", "OverflowError", "TypeError"}

Abs(n) == IF n < 0 THEN -n ELSE n
Sgn(n) == IF n < 0 THEN -1 ELSE 1

\* Integer quotient a / b rounded to the nearest integer, ties to even, as a
\* float operation rounds its exact result (b # 0): q and r are the quotient
\* and remainder of the magnitudes, d the magnitude of b.
RoundQ(q, r, d) == IF 2 * r > d \/ (2 * r = d /\ q % 2 = 1) THEN q + 1 ELSE q

RoundDiv(a, b) ==
    Sgn(a) * Sgn(b) * RoundQ(Abs(a) \div Abs(b), Abs(a) % Abs(b), Abs(b))

\* Fixed-point quotient (a / Scale) / (b / Scale) by long division, one decimal
\* digit at a time, so that no intermediate exceeds 32 bits (b # 0).
RECURSIVE LongDiv(_, _, _, _)
LongDiv(q, r, d, digits) ==
    IF digits = 0
    THEN IF 2 * r >= d THEN q + 1 ELSE q
    ELSE LongDiv(10 * q + ((10 * r) \div d), (10 * r) % d, d, digits - 1)

FixDiv(a, b) ==
    Sgn(a) * Sgn(b) * LongDiv(Abs(a) \div Abs(b), Abs(a) % Abs(b), Abs(b), 4)

\* Fixed-point product (a / Scale) * (b / Scale), split into the integer and
\* fractional parts of the magnitudes x and y so that no partial product
\* exceeds 32 bits.
MulParts(x1, x0, y1, y0) ==
    x1 * y1 * Scale + x1 * y0 + x0 * y1 + RoundDiv(x0 * y0, Scale)

FixMul(a, b) ==
    Sgn(a) * Sgn(b)
      * MulParts(Abs(a) \div Scale, Abs(a) % Scale, Abs(b) \div Scale, Abs(b) % Scale)

\* math.log of a positive fixed-point number: x = m * 2^k with m in [1, 2),
\* ln m = 2 atanh((m - 1) / (m + 1)) by its series, carried with five
\* fractional digits and rounded to four.
RECURSIVE LnNorm(_, _)
LnNorm(m, k) ==
    IF m < Scale THEN LnNorm(2 * m, k - 1)
    ELSE IF m >= 2 * Scale THEN LnNorm(RoundDiv(m, 2), k + 1)
    ELSE <<m, k>>

\* z + z^3/3 + ... + z^9/9, term = z^n and z2 = z^2 with five fractional digits.
RECURSIVE AtanhSeries(_, _, _)
AtanhSeries(term, z2, n) ==
    IF n > 9 THEN 0
    ELSE RoundDiv(term, n) + AtanhSeries(RoundDiv(term * z2, 10 * Scale), z2, n + 2)

LnMantissa(z) == 2 * AtanhSeries(z, RoundDiv(z * z, 10 * Scale), 1)

Ln(x) ==
    LET mk == LnNorm(x, 0)
    IN  RoundDiv(LnMantissa(RoundDiv((mk[1] - Scale) * 10 * Scale, mk[1] + Scale))
                   + mk[2] * 69315, 10)

\* The largest and smallest arguments of math.exp with a finite non-zero
\* double result: ln(DBL_MAX) = 709.7827 and ln(2^-1075) = -745.1332.
ExpMax == 7097827 + 0
ExpMin == 0 - 7451332

\* Quotient of two fixed-point numbers whose magnitude saturates at 1000.0,
\* beyond both thresholds of math.exp (b # 0).
SatDiv(a, b) ==
    IF Abs(a) \div Abs(b) >= 1000
    THEN Sgn(a) * Sgn(b) * 1000 * Scale
    ELSE FixDiv(a, b)

\* A positive double or zero in logarithmic form: [k |-> "pos", v |-> ln x]
\* or [k |-> "zero"]; a product that falls below the smallest double is zero.
Pos(l) == IF l < ExpMin THEN [k |-> "zero", v |-> 0] ELSE [k |-> "pos", v |-> l]

\* math.exp: OverflowError above ln(DBL_MAX), 0.0 below the smallest double.
math_exp(x) == IF x > ExpMax THEN Raise("OverflowError") ELSE Pos(x)

\* c * f and f / c for a positive constant c and a double f in logarithmic form.
Times(c, f) == IF f.k = "pos" THEN Pos(Ln(c) + f.v) ELSE f
Over(f, c) == IF f.k = "pos" THEN Pos(f.v - Ln(c)) ELSE f

\* round(x, ndigits) of a float: nan and inf are returned as they are.
PyRound(x, ndigits) ==
    IF ~IsNum(x) \/ ndigits >= 4 THEN x
    ELSE LET m == CASE ndigits = 0 -> 10000 [] ndigits = 1 -> 1000
                    [] ndigits = 2 -> 100 [] OTHER -> 10
         IN  Num(RoundDiv(x.v, m) * m)

\* sensor.py:66-80.  temp_c is a float (possibly nan or inf), rel_hum a number
\* in [0, 1] (on the grid, or a smaller positive double in logarithmic form,
\* whose product with es can fall below the smallest double and is then 0.0);
\* None for either is a TypeError at its first arithmetic use.
\* With temp_c nan or infinite every intermediate is nan, no comparison is
\* true and nan is returned.
calculate_dew_point_arden_buck(temp_c, rel_hum) ==
    IF temp_c = None THEN Raise("TypeError")
    ELSE IF ~IsNum(temp_c) THEN IF rel_hum = None THEN Raise("TypeError") ELSE NaN
    ELSE IF 2571400 + temp_c.v = 0 THEN Raise("ZeroDivisionError")
    ELSE LET x  == SatDiv(FixMul(186780 - FixDiv(temp_c.v, 2345000), temp_c.v),
                          2571400 + temp_c.v)
             ex == math_exp(x)
         IN  IF IsRaise(ex) THEN ex
             ELSE IF rel_hum = None THEN Raise("TypeError")
             ELSE LET es == Times(6112, ex)
                      e  == IF rel_hum.k = "log"
                            THEN IF es.k = "pos" THEN Pos(rel_hum.v + es.v) ELSE es
                            ELSE IF rel_hum.v = 0 THEN [k |-> "zero", v |-> 0]
                            ELSE Times(rel_hum.v, es)
                  IN  IF e.k = "zero" THEN None
                      ELSE LET alpha == Over(e, 6112).v
                               denominator == 186780 - alpha
                           IN  IF denominator = 0 THEN None
                               ELSE Num(FixDiv(FixMul(2571400, alpha), denominator))

(***************************************************************************)
(* Raw readings.  A text is a sequence of characters; a State of the host  *)
(* is NoState (hass.states.get found nothing) or [state |-> text,          *)
(* unit |-> the unit_of_measurement attribute, NoUnit when it is missing]. *)
(***************************************************************************)
Digits == <<"0", "1", "2", "3", "4", "5", "6", "7", "8", "9">>
IsDigit(c) == \E i \in 1..10 : Digits[i] = c
DigitVal(c) == (CHOOSE i \in 1..10 : Digits[i] = c) - 1

AllDigits(s) == \A i \in 1..Len(s) : IsDigit(s[i])

RECURSIVE ParseInt(_, _)
ParseInt(s, acc) ==
    IF s = <<>> THEN acc ELSE ParseInt(Tail(s), 10 * acc + DigitVal(Head(s)))

\* The fractional digits of a decimal literal as a multiple of 1 / Scale,
\* rounded on the fifth digit.
ParseFrac(s) ==
    LET d(i) == IF i <= Len(s) THEN DigitVal(s[i]) ELSE 0
    IN  1000 * d(1) + 100 * d(2) + 10 * d(3) + d(4) + (IF d(5) >= 5 THEN 1 ELSE 0)

\* Python's float(text) for an optional sign followed by inf, infinity, nan or
\* a decimal literal with an optional point; any other text is a ValueError.
float(text) ==
    LET signed == text # <<>> /\ Head(text) \in {"+", "-"}
        sgn    == IF signed /\ Head(text) = "-" THEN -1 ELSE 1
        body   == IF signed THEN Tail(text) ELSE text
        dots   == {i \in 1..Len(body) : body[i] = "."}
        dot    == IF dots = {} THEN Len(body) + 1
                  ELSE CHOOSE i \in dots : \A j \in dots : i <= j
        ip     == SubSeq(body, 1, dot - 1)
        fp     == SubSeq(body, dot + 1, Len(body))
    IN  IF body \in {<<"i", "n", "f">>, <<"i", "n", "f", "i", "n", "i", "t", "y">>}
        THEN Inf(sgn)
        ELSE IF body = <<"n", "a", "n">> THEN NaN
        ELSE IF AllDigits(ip) /\ AllDigits(fp) /\ Len(ip) + Len(fp) >= 1
        THEN Num(sgn * (ParseInt(ip, 0) * Scale + ParseFrac(fp)))
        ELSE Raise("ValueError")

\* homeassistant.util.convert(value, float): the default None on a ValueError.
convert(value) == LET f == float(value) IN IF f.k = "ValueError" THEN None ELSE f

NoState == [state |-> <<>>, unit |-> "absent"]
NoUnit == "missing"
CELSIUS == "C"
FAHRENHEIT == "F"
KELVIN == "K"
PERCENTAGE == "%"
STATE_UNKNOWN == <<"u", "n", "k", "n", "o", "w", "n">>
STATE_UNAVAILABLE == <<"u", "n", "a", "v", "a", "i", "l", "a", "b", "l", "e">>

\* TemperatureConverter.convert(value, unit, CELSIUS) for the two units the
\* caller lets through: the value itself, or (fahrenheit - 32.0) / 1.8.
TemperatureConverter_convert(value, unit) ==
    IF unit = CELSIUS \/ ~IsNum(value) THEN value
    ELSE Num(RoundDiv((value.v - 32 * Scale) * 10, 18))

\* _parse_temp_state without the unit test of line 214: a value with any other
\* unit is taken as Celsius.
parse_temp_state_any_unit(state) ==
    IF state = NoState \/ state.state \in {STATE_UNKNOWN, STATE_UNAVAILABLE}
    THEN None
    ELSE LET value_float == convert(state.state)
         IN  IF value_float = None THEN None
             ELSE IF state.unit = FAHRENHEIT
             THEN TemperatureConverter_convert(value_float, state.unit)
             ELSE value_float

\* sensor.py:197-228
parse_temp_state(state) ==
    IF state = NoState \/ state.state \in {STATE_UNKNOWN, STATE_UNAVAILABLE}
    THEN None
    ELSE LET value_float == convert(state.state)
         IN  IF value_float = None THEN None
             ELSE IF state.unit \in {FAHRENHEIT, CELSIUS}
             THEN TemperatureConverter_convert(value_float, state.unit)
             ELSE None

\* _parse_hum_state that clamps a value outside 0..100 instead of rejecting it.
parse_hum_state_clamp(state) ==
    IF state = NoState \/ state.state \in {STATE_UNKNOWN, STATE_UNAVAILABLE}
    THEN None
    ELSE LET value_float == convert(state.state)
         IN  IF value_float = None THEN None
             ELSE IF state.unit # PERCENTAGE \/ ~IsNum(value_float) THEN None
             ELSE IF value_float.v < 0 THEN Num(0)
             ELSE IF value_float.v > 100 * Scale THEN Num(Scale)
             ELSE Num(RoundDiv(value_float.v, 100))

\* sensor.py:230-264.  Every comparison with nan is false, so nan fails the
\* range test, as do both infinities.
parse_hum_state(state) ==
    IF state = NoState \/ state.state \in {STATE_UNKNOWN, STATE_UNAVAILABLE}
    THEN None
    ELSE LET value_float == convert(state.state)
         IN  IF value_float = None THEN None
             ELSE IF state.unit # PERCENTAGE THEN None
             ELSE IF ~(IsNum(value_float) /\ 0 <= value_float.v
                                          /\ value_float.v <= 100 * Scale)
             THEN None
             ELSE Num(RoundDiv(value_float.v, 100))

(***************************************************************************)
(* The host and one DewPointSensor.                                        *)
(***************************************************************************)
VARIABLES
    hass_started,      \* EVENT_HOMEASSISTANT_STARTED has been fired
    states,            \* hass.states: entity id -> State
    entry,             \* the config entry: data and options
    started_listener,  \* the async_listen_once registration of sensor_startup
    tracking,          \* the async_track_state_change_event subscription is live
    timer,             \* the async_call_later timer: none, pending, fired
    lifecycle,         \* platform state of the entity
    entity_id,         \* self.entity_id has been assigned by the platform
    self,              \* the fields of the DewPointSensor
    thr,               \* the executor job that runs the timer's action
    last,              \* the last handler: its name, its calls of
                       \* async_write_ha_state and the exception it raised
    torn               \* the controller state in which teardown first ran

vars == <<hass_started, states, entry, started_listener, tracking,
          timer, lifecycle, entity_id, self, thr, last, torn>>

TEMP == "sensor.temp"
HUM == "sensor.hum"
OTHER_ID == "sensor.other"
EntityIds == {TEMP, HUM, OTHER_ID}

St(text, unit) == [state |-> text, unit |-> unit]

\* The readings the host holds for each entity in Spec.
TempStates ==
    { NoState,
      St(<<"2", "5">>, CELSIUS),
      St(<<"3", "0", "0">>, KELVIN),
      St(<<"-", "2", "5", "7", ".", "1", "4">>, CELSIUS) }

HumStates ==
    { St(STATE_UNAVAILABLE, PERCENTAGE),
      St(<<"6", "0">>, PERCENTAGE) }

OtherStates == { St(<<"2", "0">>, CELSIUS) }

StatesOf(eid) ==
    CASE eid = TEMP -> TempStates [] eid = HUM -> HumStates [] OTHER -> OtherStates

(***************************************************************************)
(* Configuration: config_flow.py and sensor.async_setup_entry.             *)
(***************************************************************************)
\* int(x) of a float: truncation towards zero.
int(x) == Sgn(x.v) * (Abs(x.v) \div Scale)

\* What the forms can submit: the channel ids and the number typed into the
\* decimal_places box, as the float the NumberSelector yields.
Input(t, h, d) == [temperature_sensor |-> t, humidity_sensor |-> h, decimal_places |-> d]

UserInputs ==
    { Input(TEMP, HUM, Num(0 - Scale)), Input(TEMP, HUM, Num(15000)),
      Input(TEMP, HUM, Num(15 * Scale)), Input(TEMP, HUM, Num(16 * Scale)) }

OptionInputs ==
    { Input(OTHER_ID, HUM, Num(0)), Input(TEMP, HUM, Num(155000)) }

\* NumberSelector without its max: any non-negative number passes.
NumberSelector_no_max(value) == value.v >= 0 * Scale

\* NumberSelectorConfig(min=0, max=15, step=1, mode="box") of both forms: the
\* host validates a submission against the schema before the step sees it
\* (a rejected one is answered with vol.Invalid and the form again), and the
\* schema checks min and max only.
NumberSelector(value) == value.v >= 0 * Scale /\ value.v <= 15 * Scale

NoConfig == [temperature_sensor |-> "", humidity_sensor |-> "", decimal_places |-> 0]
NoEntry == [exists |-> FALSE, data |-> NoConfig, has_options |-> FALSE, options |-> NoConfig]

Handler(name, wrote, raised) == [handler |-> name, wrote |-> wrote, raised |-> raised]

\* config_flow.py:32-74
async_step_user(user_input) ==
    /\ ~entry.exists
    /\ IF NumberSelector(user_input.decimal_places)
       THEN /\ entry' = [NoEntry EXCEPT !.exists = TRUE,
                            !.data = [user_input EXCEPT
                                         !.decimal_places = int(user_input.decimal_places)]]
            /\ last' = Handler("async_step_user", 0, "none")
       ELSE /\ entry' = entry
            /\ last' = Handler("async_step_user", 0, "vol.Invalid")
    /\ UNCHANGED <<hass_started, states, started_listener, tracking, timer,
                   lifecycle, entity_id, self, thr, torn>>

\* config_flow.py:88-100: the options replace entry.options; nothing in the
\* integration listens for the update, so no entity is touched.
async_step_init(user_input) ==
    /\ entry.exists
    /\ IF NumberSelector(user_input.decimal_places)
       THEN /\ entry' = [entry EXCEPT !.has_options = TRUE,
                            !.options = [user_input EXCEPT
                                            !.decimal_places = int(user_input.decimal_places)]]
            /\ last' = Handler("async_step_init", 0, "none")
       ELSE /\ entry' = entry
            /\ last' = Handler("async_step_init", 0, "vol.Invalid")
    /\ UNCHANGED <<hass_started, states, started_listener, tracking, timer,
                   lifecycle, entity_id, self, thr, torn>>

NoSensor ==
    [ entity_dry_temp |-> "", entity_rel_hum |-> "", decimal_places |-> 0,
      unsub_listener |-> FALSE, startup_handle |-> FALSE,
      dry_temp_value |-> None, rel_hum_value |-> None, attr_native_value |-> None ]

\* sensor.py:91-110.  unsub_listener and startup_handle are FALSE for None.
DewPointSensor(entity_dry_temp, entity_rel_hum, decimal_places) ==
    [ NoSensor EXCEPT !.entity_dry_temp = entity_dry_temp,
                      !.entity_rel_hum = entity_rel_hum,
                      !.decimal_places = decimal_places ]

\* entry.options.get(key, entry.data[key])
Option(e) == IF e.has_options THEN e.options ELSE e.data

\* sensor.py:33-63: the entity is constructed and handed to the platform,
\* which polls it once (update_before_add) before it assigns the entity id.
async_setup_entry ==
    /\ entry.exists
    /\ lifecycle = "none"
    /\ self' = DewPointSensor(Option(entry).temperature_sensor,
                              Option(entry).humidity_sensor,
                              Option(entry).decimal_places)
    /\ lifecycle' = "new"
    /\ last' = Handler("async_setup_entry", 0, "none")
    /\ UNCHANGED <<hass_started, states, entry, started_listener,
                   tracking, timer, entity_id, thr, torn>>

(***************************************************************************)
(* The update controller: sensor.py, class DewPointSensor.                 *)
(***************************************************************************)
\* sensor.py:154-165
extra_state_attributes(s) ==
    [ temperature |-> s.dry_temp_value,
      humidity |-> IF s.rel_hum_value = None THEN None
                   ELSE IF s.rel_hum_value.k = "log" THEN Num(0)
                   ELSE PyRound(Num(s.rel_hum_value.v * 100), 1),
      decimal_places |-> s.decimal_places ]

\* What async_write_ha_state reads from the entity when a handler ends with
\* it: the native value and the attributes.
Reading(s) == [value |-> s.attr_native_value, attributes |-> extra_state_attributes(s)]

\* sensor.py:184-195 on the fields s of an entity whose entity id is assigned
\* or not: the fields afterwards, whether async_write_ha_state was called, and
\* the exception the calculator raised (then nothing is stored or written).
recalculate_and_write_state(s, has_id) ==
    LET dew_point == IF s.dry_temp_value # None /\ s.rel_hum_value # None
                     THEN calculate_dew_point_arden_buck(s.dry_temp_value, s.rel_hum_value)
                     ELSE None
    IN  IF IsRaise(dew_point)
        THEN [self |-> s, wrote |-> 0, raised |-> dew_point.k]
        ELSE [self |-> [s EXCEPT !.attr_native_value =
                           IF dew_point # None THEN PyRound(dew_point, s.decimal_places)
                           ELSE None],
              wrote |-> IF has_id THEN 1 ELSE 0,
              raised |-> "none"]

\* The end of a handler that ran recalculate_and_write_state on fields s.
Recalculated(name, s) ==
    LET r == recalculate_and_write_state(s, entity_id)
    IN  /\ self' = r.self
        /\ last' = Handler(name, r.wrote, r.raised)

\* A refresh that gives up after a failed temperature: the humidity is not read.
Refreshed_abort(s) ==
    IF parse_temp_state(states[s.entity_dry_temp]) = None
    THEN [s EXCEPT !.dry_temp_value = None]
    ELSE [s EXCEPT !.dry_temp_value = parse_temp_state(states[s.entity_dry_temp]),
                   !.rel_hum_value = parse_hum_state(states[s.entity_rel_hum])]

\* sensor.py:267-274 and 171-175 / 177-182: both channels read from hass.states.
Refreshed(s) ==
    [s EXCEPT !.dry_temp_value = parse_temp_state(states[s.entity_dry_temp]),
              !.rel_hum_value = parse_hum_state(states[s.entity_rel_hum])]

\* sensor.py:171-175.  The platform polls the entity once before it is added
\* (update_before_add, no entity id yet) and gives the entity up if that poll
\* raises; later polls come from the update_entity service.
async_update ==
    /\ lifecycle \in {"new", "added"}
    /\ Recalculated("async_update", Refreshed(self))
    /\ lifecycle' = IF lifecycle = "added" THEN lifecycle
                    ELSE IF recalculate_and_write_state(Refreshed(self), entity_id).raised
                              = "none"
                    THEN "polled" ELSE "aborted"
    /\ UNCHANGED <<hass_started, states, entry, started_listener,
                   tracking, timer, entity_id, thr, torn>>

\* async_added_to_hass that subscribes the state listener at once instead of
\* waiting for EVENT_HOMEASSISTANT_STARTED.
async_added_to_hass_subscribes ==
    /\ lifecycle = "polled"
    /\ lifecycle' = "added"
    /\ entity_id' = TRUE
    /\ started_listener' = "registered"
    /\ tracking' = TRUE
    /\ self' = [self EXCEPT !.unsub_listener = TRUE]
    /\ last' = Handler("async_added_to_hass", 0, "none")
    /\ UNCHANGED <<hass_started, states, entry, timer, thr, torn>>

\* sensor.py:112-143: the platform has assigned the entity id; sensor_startup is
\* registered for the next EVENT_HOMEASSISTANT_STARTED.
async_added_to_hass ==
    /\ lifecycle = "polled"
    /\ lifecycle' = "added"
    /\ entity_id' = TRUE
    /\ started_listener' = "registered"
    /\ last' = Handler("async_added_to_hass", 0, "none")
    /\ UNCHANGED <<hass_started, states, entry, tracking, timer,
                   self, thr, torn>>

\* sensor.py:129-141: the state listener is subscribed and the delayed first
\* read scheduled.
sensor_startup ==
    /\ tracking' = TRUE
    /\ timer' = "pending"
    /\ self' = [self EXCEPT !.unsub_listener = TRUE, !.startup_handle = TRUE]
    /\ started_listener' = "fired"
    /\ last' = Handler("sensor_startup", 0, "none")

\* The host fires EVENT_HOMEASSISTANT_STARTED, once; a listener registered
\* with async_listen_once after that is never called.
homeassistant_started ==
    /\ ~hass_started
    /\ hass_started' = TRUE
    /\ IF started_listener = "registered"
       THEN sensor_startup
       ELSE /\ last' = Handler("none", 0, "none")
            /\ UNCHANGED <<started_listener, tracking, timer, self>>
    /\ UNCHANGED <<states, entry, lifecycle, entity_id, thr, torn>>

\* sensor.py:114-127
sensor_state_listener(event_entity_id, new_state) ==
    IF event_entity_id = self.entity_dry_temp
    THEN Recalculated("sensor_state_listener",
                      [self EXCEPT !.dry_temp_value = parse_temp_state(new_state)])
    ELSE IF event_entity_id = self.entity_rel_hum
    THEN Recalculated("sensor_state_listener",
                      [self EXCEPT !.rel_hum_value = parse_hum_state(new_state)])
    ELSE /\ last' = Handler("sensor_state_listener", 0, "none")
         /\ self' = self

\* The executor job of the timer is between its first and its last step.
Running == thr.pc \notin {"idle", "done"}

\* The host stores a new state for an entity and dispatches the state_changed
\* event to the subscription, which delivers the two tracked entity ids only.
state_changed(eid, new_state) ==
    /\ new_state # states[eid]
    /\ states' = [states EXCEPT ![eid] = new_state]
    /\ IF tracking /\ eid \in {self.entity_dry_temp, self.entity_rel_hum}
       THEN sensor_state_listener(eid, new_state)
       ELSE /\ last' = Handler("none", 0, "none")
            /\ self' = self
    /\ thr' = IF Running THEN [thr EXCEPT !.stable = FALSE] ELSE thr
    /\ UNCHANGED <<hass_started, entry, started_listener, tracking,
                   timer, lifecycle, entity_id, torn>>

\* The controller state of the design: Uninitialized until sensor_startup has
\* run, Armed while the timer is pending, Live once it has fired.
ControllerState ==
    CASE timer = "pending" -> "armed" [] timer = "fired" -> "live"
      [] OTHER -> "uninitialized"

\* sensor.py:151, self._startup_handle.cancel() on a timer in state t.
\* async_call_later returns a CALLBACK_TYPE: the callable that cancels the
\* timer when it is called.  It has no attribute cancel, so the attribute
\* lookup raises AttributeError; the timer is left as it was and line 152
\* is not reached (handle: _startup_handle is still set).
startup_handle_cancel(t) == [raised |-> "AttributeError", timer |-> t, handle |-> TRUE]

\* sensor.py:145-152.  The platform calls it when the entity is removed; a
\* repeated call is the idempotence case of the design.
async_will_remove_from_hass ==
    /\ lifecycle \in {"added", "removed"}
    /\ LET c == IF self.startup_handle THEN startup_handle_cancel(timer)
                ELSE [raised |-> "none", timer |-> timer, handle |-> FALSE]
       IN  /\ tracking' = IF self.unsub_listener THEN FALSE ELSE tracking
           /\ self' = [self EXCEPT !.unsub_listener = FALSE, !.startup_handle = c.handle]
           /\ timer' = c.timer
           /\ last' = Handler("async_will_remove_from_hass", 0, c.raised)
    /\ lifecycle' = "removed"
    /\ torn' = IF torn = "no" THEN ControllerState ELSE torn
    /\ UNCHANGED <<hass_started, states, entry, started_listener,
                   entity_id, thr>>

(***************************************************************************)
(* sensor.py:137-141 and 177-182.  The action handed to async_call_later   *)
(* is a plain lambda, not a @callback: the host runs such a job in its     *)
(* executor (loop.run_in_executor), on a worker thread beside the event    *)
(* loop.  _initial_refresh is therefore modelled one shared access at a    *)
(* time, and the handlers of the event loop may run between its steps.     *)
(*   thr.pc      where the job is       thr.loc, thr.res   its locals       *)
(*   thr.stable  no reading of the host has changed since the job began    *)
(***************************************************************************)
NoThread == [pc |-> "idle", loc |-> None, res |-> None, stable |-> TRUE]

Thread(pc, loc, res) == [pc |-> pc, loc |-> loc, res |-> res, stable |-> thr.stable]

ThreadStep(pc, t, s) ==
    /\ thr.pc = pc
    /\ thr' = t
    /\ self' = s
    /\ UNCHANGED <<hass_started, states, entry, started_listener,
                   tracking, timer, lifecycle, entity_id, torn>>

Quiet == last' = Handler("_initial_refresh", 0, "none")

\* The timer fires: the lambda is submitted to the executor.
call_later_fires ==
    /\ timer = "pending"
    /\ timer' = "fired"
    /\ thr' = [NoThread EXCEPT !.pc = "get_t"]
    /\ last' = Handler("_initial_refresh", 0, "none")
    /\ UNCHANGED <<hass_started, states, entry, started_listener,
                   tracking, lifecycle, entity_id, self, torn>>

\* sensor.py:180: self._get_dry_temp(...) evaluated, then stored.
initial_refresh_get_t ==
    /\ ThreadStep("get_t",
                  Thread("set_t", parse_temp_state(states[self.entity_dry_temp]), None),
                  self)
    /\ Quiet

initial_refresh_set_t ==
    /\ ThreadStep("set_t", Thread("get_h", None, None),
                  [self EXCEPT !.dry_temp_value = thr.loc])
    /\ Quiet

\* sensor.py:181
initial_refresh_get_h ==
    /\ ThreadStep("get_h",
                  Thread("set_h", parse_hum_state(states[self.entity_rel_hum]), None),
                  self)
    /\ Quiet

initial_refresh_set_h ==
    /\ ThreadStep("set_h", Thread("chk_t", None, None),
                  [self EXCEPT !.rel_hum_value = thr.loc])
    /\ Quiet

\* sensor.py:186: the two None tests, left to right.
initial_refresh_chk_t ==
    /\ ThreadStep("chk_t",
                  IF self.dry_temp_value # None THEN Thread("chk_h", None, None)
                  ELSE Thread("store", None, None),
                  self)
    /\ Quiet

initial_refresh_chk_h ==
    /\ ThreadStep("chk_h",
                  IF self.rel_hum_value # None THEN Thread("arg_t", None, None)
                  ELSE Thread("store", None, None),
                  self)
    /\ Quiet

\* sensor.py:187: the two arguments are read again for the call.
initial_refresh_arg_t ==
    /\ ThreadStep("arg_t", Thread("arg_h", self.dry_temp_value, None), self)
    /\ Quiet

\* sensor.py:187-190: the call and the rounding; an exception ends the job.
initial_refresh_arg_h ==
    /\ thr.pc = "arg_h"
    /\ LET dew_point == calculate_dew_point_arden_buck(thr.loc, self.rel_hum_value)
       IN  /\ ThreadStep("arg_h",
                         IF IsRaise(dew_point) THEN Thread("done", None, None)
                         ELSE Thread("store", None,
                                     IF dew_point # None
                                     THEN PyRound(dew_point, self.decimal_places)
                                     ELSE None),
                         self)
           /\ last' = Handler("_initial_refresh", 0,
                              IF IsRaise(dew_point) THEN dew_point.k ELSE "none")

\* sensor.py:188 / 192: the assignment to _attr_native_value.
initial_refresh_store ==
    /\ ThreadStep("store", Thread("write", None, None),
                  [self EXCEPT !.attr_native_value = thr.res])
    /\ Quiet

\* sensor.py:194-195
initial_refresh_write ==
    /\ ThreadStep("write", Thread("done", None, None), self)
    /\ last' = Handler("_initial_refresh", IF entity_id THEN 1 ELSE 0, "none")

_initial_refresh ==
    \/ initial_refresh_get_t \/ initial_refresh_set_t
    \/ initial_refresh_get_h \/ initial_refresh_set_h
    \/ initial_refresh_chk_t \/ initial_refresh_chk_h
    \/ initial_refresh_arg_t \/ initial_refresh_arg_h
    \/ initial_refresh_store \/ initial_refresh_write

Init ==
    /\ hass_started = FALSE
    /\ states \in [EntityIds -> UNION {StatesOf(e) : e \in EntityIds}]
    /\ \A e \in EntityIds : states[e] \in StatesOf(e)
    /\ entry = NoEntry
    /\ started_listener = "none"
    /\ tracking = FALSE
    /\ timer = "none"
    /\ lifecycle = "none"
    /\ entity_id = FALSE
    /\ self = NoSensor
    /\ thr = NoThread
    /\ last = Handler("none", 0, "none")
    /\ torn = "no"

Next ==
    \/ \E user_input \in UserInputs : async_step_user(user_input)
    \/ \E user_input \in OptionInputs : async_step_init(user_input)
    \/ async_setup_entry
    \/ async_update
    \/ async_added_to_hass
    \/ homeassistant_started
    \/ \E eid \in EntityIds : \E new_state \in StatesOf(eid) : state_changed(eid, new_state)
    \/ async_will_remove_from_hass
    \/ call_later_fires
    \/ _initial_refresh

Spec == Init /\ [][Next]_vars

(***************************************************************************)
(* FairSpec: the controller of one entity under the scheduling of the      *)
(* host.  It starts where async_setup_entry has just constructed the       *)
(* entity for the entry (sensor.temp, sensor.hum, one decimal); the host   *)
(* eventually signals its start, a timer that is due fires, and the        *)
(* executor runs a job it was given to its end.  While the job runs one of *)
(* its steps is always enabled and only its own steps end it, so weak      *)
(* fairness of _initial_refresh is the recurrence of ~Running.             *)
(***************************************************************************)
FairInit ==
    /\ hass_started = FALSE
    /\ states \in [EntityIds -> UNION {StatesOf(e) : e \in EntityIds}]
    /\ \A e \in EntityIds : states[e] \in StatesOf(e)
    /\ entry = [NoEntry EXCEPT !.exists = TRUE, !.data = Input(TEMP, HUM, 1)]
    /\ started_listener = "none"
    /\ tracking = FALSE
    /\ timer = "none"
    /\ lifecycle = "new"
    /\ entity_id = FALSE
    /\ self = DewPointSensor(TEMP, HUM, 1)
    /\ thr = NoThread
    /\ last = Handler("async_setup_entry", 0, "none")
    /\ torn = "no"

FairNext ==
    \/ async_update
    \/ async_added_to_hass
    \/ homeassistant_started
    \/ \E eid \in EntityIds : \E new_state \in StatesOf(eid) : state_changed(eid, new_state)
    \/ async_will_remove_from_hass
    \/ call_later_fires
    \/ _initial_refresh

FairSpec ==
    /\ FairInit /\ [][FairNext]_vars
    /\ WF_vars(homeassistant_started)
    /\ WF_vars(call_later_fires)
    /\ []<>(~Running)

(***************************************************************************)
(* NormSpec: the normalizer and the calculator on a wide set of readings.  *)
(* It starts where async_setup_entry has just constructed the entity for   *)
(* the entry (sensor.temp, sensor.hum, one decimal) and lets the host      *)
(* change the readings, poll, add the entity and signal its start, so      *)
(* that every reading passes through _parse_temp_state or                  *)
(* _parse_hum_state on the poll path and on the listener path.             *)
(***************************************************************************)
WideTempStates ==
    TempStates \union
    { St(STATE_UNKNOWN, CELSIUS),
      St(<<"3", "2", ".", "0">>, FAHRENHEIT),
      St(<<"2", "1", "2", ".", "0">>, FAHRENHEIT),
      St(<<"2", "5">>, NoUnit),
      St(<<"w", "a", "r", "m">>, CELSIUS),
      St(<<"n", "a", "n">>, CELSIUS),
      St(<<"i", "n", "f">>, FAHRENHEIT),
      St(<<"-", "2", "5", "8">>, CELSIUS) }

WideHumStates ==
    HumStates \union
    { NoState,
      St(<<"0">>, PERCENTAGE),
      St(<<"1", "0", "0">>, PERCENTAGE),
      St(<<"1", "0", "0", ".", "0", "1">>, PERCENTAGE),
      St(<<"-", "0", ".", "5">>, PERCENTAGE),
      St(<<"6", "0">>, NoUnit),
      St(<<"6", "0">>, CELSIUS),
      St(<<"w", "e", "t">>, PERCENTAGE),
      St(<<"n", "a", "n">>, PERCENTAGE),
      St(<<"i", "n", "f">>, PERCENTAGE) }

WideStatesOf(eid) ==
    CASE eid = TEMP -> WideTempStates [] eid = HUM -> WideHumStates
      [] OTHER -> OtherStates

NormEntry ==
    [NoEntry EXCEPT !.exists = TRUE, !.data = Input(TEMP, HUM, 1)]

NormInit ==
    /\ hass_started = FALSE
    /\ states \in [EntityIds -> UNION {WideStatesOf(e) : e \in EntityIds}]
    /\ \A e \in EntityIds : states[e] \in WideStatesOf(e)
    /\ entry = NormEntry
    /\ started_listener = "none"
    /\ tracking = FALSE
    /\ timer = "none"
    /\ lifecycle = "new"
    /\ entity_id = FALSE
    /\ self = DewPointSensor(TEMP, HUM, 1)
    /\ thr = NoThread
    /\ last = Handler("async_setup_entry", 0, "none")
    /\ torn = "no"

NormNext ==
    \/ async_update
    \/ async_added_to_hass
    \/ homeassistant_started
    \/ \E eid \in EntityIds : \E new_state \in WideStatesOf(eid) :
           state_changed(eid, new_state)

NormSpec == NormInit /\ [][NormNext]_vars

(***************************************************************************)
(* CalcSpec: the calculator on its valid domain.  The cached pair is drawn *)
(* from temperatures in [-80, 60] degC and humidity fractions in (0, 1] of *)
(* an added entity that keeps 15 decimals, and the recomputation of        *)
(* sensor.py:184-195 applies _calculate_dew_point_arden_buck to it.        *)
(***************************************************************************)
MinT == 0 - 80
MaxT == 60

CalcTemps ==
    { Num(t * Scale) : t \in {MinT, -60, -40, -20, -10, 0, 10, 20, 25, 40, MaxT} }

\* 5e-324, the smallest positive double (2^-1074, ln = -744.4401): what
\* _parse_hum_state caches for the reading "5e-322" %.
SmallestDouble == Log(0 - 7444401)

CalcHums ==
    { Num(h) : h \in {1, 100, 1000, 2500, 5000, 6000, 7500, 9000, Scale} }
      \union { SmallestDouble }

CalcInit ==
    /\ hass_started = TRUE
    /\ states \in [EntityIds -> UNION {StatesOf(e) : e \in EntityIds}]
    /\ \A e \in EntityIds : states[e] = CHOOSE x \in StatesOf(e) : TRUE
    /\ entry = [NoEntry EXCEPT !.exists = TRUE, !.data = Input(TEMP, HUM, 15)]
    /\ started_listener = "registered"
    /\ tracking = FALSE
    /\ timer = "none"
    /\ lifecycle = "added"
    /\ entity_id = TRUE
    /\ \E t \in CalcTemps : \E h \in CalcHums :
          self = [DewPointSensor(TEMP, HUM, 15) EXCEPT !.dry_temp_value = t,
                                                      !.rel_hum_value = h]
    /\ thr = NoThread
    /\ last = Handler("async_added_to_hass", 0, "none")
    /\ torn = "no"

\* sensor.py:184-195 on the cached pair.
Recalculate ==
    /\ last.handler # "_recalculate_and_write_state"
    /\ Recalculated("_recalculate_and_write_state", self)
    /\ UNCHANGED <<hass_started, states, entry, started_listener, tracking,
                   timer, lifecycle, entity_id, thr, torn>>

CalcNext == Recalculate

CalcSpec == CalcInit /\ [][CalcNext]_vars

(***************************************************************************)
(* Properties.                                                             *)
(***************************************************************************)
\* A trigger has just ended: a poll, a change notification, or the last step
\* of the delayed first read.
Trigger ==
    \/ last.handler \in {"async_update", "sensor_state_listener"}
    \/ last.handler = "_initial_refresh" /\ thr.pc = "done"

\* A trigger that reads both channels has just ended, and (for the delayed
\* first read, which takes several steps) the readings did not change under it.
BothRead ==
    \/ last.handler = "async_update"
    \/ last.handler = "_initial_refresh" /\ thr.pc = "done" /\ thr.stable

TempChannel == states[self.entity_dry_temp]
HumChannel == states[self.entity_rel_hum]

\* C1: once teardown has run while the controller was Armed (timer pending),
\* the delayed first read never starts and nothing is published any more.
C1_TeardownCancelsTimer ==
    torn = "armed" => (thr.pc = "idle" /\ last.wrote = 0)

\* The dew point the design prescribes for the cached pair of s: rounded to
\* the precision when both inputs are present and the calculator gives a
\* value, "unknown" (None) otherwise.
DerivedOutput(s) ==
    LET dp == IF s.dry_temp_value # None /\ s.rel_hum_value # None
              THEN calculate_dew_point_arden_buck(s.dry_temp_value, s.rel_hum_value)
              ELSE None
    IN  IF dp = None \/ IsRaise(dp) THEN None ELSE PyRound(dp, s.decimal_places)

\* C2: whenever no handler is under way, the native value of a constructed
\* sensor is the derived output of its currently cached pair and precision.
C2_OutputIsFunctionOfCache ==
    (lifecycle # "none" /\ ~Running) => self.attr_native_value = DerivedOutput(self)

\* C3: after a trigger that read both channels with exactly one of them
\* failing to normalize, the other channel's cached value is its normalized
\* reading (60 % is cached as 0.6 and shown as 60.0, 25 degC as 25.0), the
\* failed one is None, the native value is None and no exception was raised.
C3_FailureDegradesOneChannel ==
    BothRead =>
      /\ (parse_temp_state(TempChannel) = None /\ HumChannel = St(<<"6", "0">>, PERCENTAGE))
           => /\ self.dry_temp_value = None
              /\ self.rel_hum_value = Num(6000)
              /\ self.attr_native_value = None
              /\ Reading(self).attributes.humidity = Num(60 * Scale)
              /\ last.raised = "none"
      /\ (parse_hum_state(HumChannel) = None /\ TempChannel = St(<<"2", "5">>, CELSIUS))
           => /\ self.rel_hum_value = None
              /\ self.dry_temp_value = Num(25 * Scale)
              /\ self.attr_native_value = None
              /\ Reading(self).attributes.temperature = Num(25 * Scale)
              /\ Reading(self).attributes.humidity = None
              /\ last.raised = "none"

\* The delayed first read has just published with the temperature channel
\* failing and the humidity channel valid throughout.
C3_Witness ==
    /\ last.handler = "_initial_refresh" /\ thr.pc = "done" /\ thr.stable
    /\ last.wrote = 1
    /\ parse_temp_state(TempChannel) = None
    /\ HumChannel = St(<<"6", "0">>, PERCENTAGE)
    /\ self.rel_hum_value = Num(6000)

\* C4: every trigger ends with exactly one call of async_write_ha_state.
C4_EveryTriggerPublishesOnce == Trigger => last.wrote = 1

\* C5: once options are stored, a trigger leaves the sensor working with the
\* channel ids and the precision of the options.
C5_ReconfigurationTakesEffect ==
    (entry.has_options /\ Trigger) =>
      /\ self.decimal_places = entry.options.decimal_places
      /\ self.entity_dry_temp = entry.options.temperature_sensor
      /\ self.entity_rel_hum = entry.options.humidity_sensor

\* C6: no handler of the controller ends with an exception.
C6_NoExceptionEscapes ==
    last.handler \in {"async_update", "sensor_state_listener", "_initial_refresh",
                      "sensor_startup", "async_added_to_hass",
                      "async_will_remove_from_hass"}
      => last.raised = "none"

\* After a poll with the humidity channel holding text and unit, the cached
\* humidity is expected.
HumCase(text, unit, expected) ==
    (last.handler = "async_update" /\ HumChannel = St(text, unit))
      => self.rel_hum_value = expected

\* C7: the cached humidity is always None or a number in [0, 1]; a poll
\* caches v / 100 for a percent reading with 0 <= v <= 100 (100 gives 1.0, 0
\* gives 0.0, 60 gives 0.6) and None for any other reading (100.01 and -0.5 are
\* rejected, not clamped; so are another unit, no unit, text, nan and inf).
C7_HumidityNormalized ==
    /\ self.rel_hum_value = None
         \/ (IsNum(self.rel_hum_value) /\ self.rel_hum_value.v \in 0..Scale)
    /\ HumCase(<<"1", "0", "0">>, PERCENTAGE, Num(Scale))
    /\ HumCase(<<"0">>, PERCENTAGE, Num(0))
    /\ HumCase(<<"6", "0">>, PERCENTAGE, Num(6000))
    /\ HumCase(<<"1", "0", "0", ".", "0", "1">>, PERCENTAGE, None)
    /\ HumCase(<<"-", "0", ".", "5">>, PERCENTAGE, None)
    /\ HumCase(<<"6", "0">>, NoUnit, None)
    /\ HumCase(<<"6", "0">>, CELSIUS, None)
    /\ HumCase(<<"w", "e", "t">>, PERCENTAGE, None)
    /\ HumCase(<<"n", "a", "n">>, PERCENTAGE, None)
    /\ HumCase(<<"i", "n", "f">>, PERCENTAGE, None)
    /\ HumCase(STATE_UNAVAILABLE, PERCENTAGE, None)

\* A poll has cached 1.0 for the reading 100 %.
C7_Witness ==
    /\ last.handler = "async_update"
    /\ HumChannel = St(<<"1", "0", "0">>, PERCENTAGE)
    /\ self.rel_hum_value = Num(Scale)

\* After a poll with the temperature channel holding text and unit, the cached
\* temperature is expected and the normalizer raised nothing of its own.
TempCase(text, unit, expected) ==
    (last.handler = "async_update" /\ TempChannel = St(text, unit))
      => /\ self.dry_temp_value = expected
         /\ expected = None => last.raised = "none"

\* C8: a poll caches a Celsius reading unchanged (25 gives 25.0), a Fahrenheit
\* reading converted (32.0 gives 0.0, 212.0 gives 100.0), and None, without an
\* exception, for Kelvin and for a reading with no unit.
C8_TemperatureNormalized ==
    /\ TempCase(<<"2", "5">>, CELSIUS, Num(25 * Scale))
    /\ TempCase(<<"3", "2", ".", "0">>, FAHRENHEIT, Num(0))
    /\ TempCase(<<"2", "1", "2", ".", "0">>, FAHRENHEIT, Num(100 * Scale))
    /\ TempCase(<<"3", "0", "0">>, KELVIN, None)
    /\ TempCase(<<"2", "5">>, NoUnit, None)

\* A poll has cached 100.0 for the reading 212.0 degF.
C8_Witness ==
    /\ last.handler = "async_update"
    /\ TempChannel = St(<<"2", "1", "2", ".", "0">>, FAHRENHEIT)
    /\ self.dry_temp_value = Num(100 * Scale)

Finite(x) == x.k \in {"none", "num"}

\* C9: neither cached input nor the native value is ever nan or infinite.
C9_NoNonFiniteValue ==
    /\ Finite(self.dry_temp_value)
    /\ Finite(self.rel_hum_value)
    /\ Finite(self.attr_native_value)

\* C10: the precision of the entry (data and options) and of every constructed
\* sensor is an integer in 0..15, and a submission of the first form that is
\* rejected creates no entry, so no sensor.
C10_PrecisionInRange ==
    /\ entry.exists => entry.data.decimal_places \in 0..15
    /\ entry.has_options => entry.options.decimal_places \in 0..15
    /\ lifecycle # "none" => self.decimal_places \in 0..15
    /\ (last.handler = "async_step_user" /\ last.raised = "vol.Invalid")
         => (~entry.exists /\ lifecycle = "none")

\* A sensor constructed with the largest precision, 15.
C10_Witness == lifecycle # "none" /\ self.decimal_places = 15

\* T in [-80, 60] and RH in (0, 1].
ValidInput(t, h) ==
    /\ IsNum(t) /\ t.v >= MinT * Scale /\ t.v <= MaxT * Scale
    /\ \/ IsNum(h) /\ h.v > 0 /\ h.v <= Scale
       \/ h.k = "log" /\ h.v <= 0

\* C11: for every cached pair in the valid domain the calculator returns a
\* number (not None, not nan or infinite, no exception) that does not exceed
\* the temperature.
C11_DewPointAtMostTemperature ==
    (last.handler = "_recalculate_and_write_state"
       /\ ValidInput(self.dry_temp_value, self.rel_hum_value)) =>
      LET d == calculate_dew_point_arden_buck(self.dry_temp_value, self.rel_hum_value)
      IN  IsNum(d) /\ d.v <= self.dry_temp_value.v

\* What a poll (sensor.py:171-175) would leave in the entity at this moment.
Polled == recalculate_and_write_state(Refreshed(self), entity_id).self

\* C12: when a change notification has just been handled (the listener is
\* attached: Armed or Live), the cached pair and the native value are what a
\* poll would produce from the host's current readings.
C12_PushAndPollConverge ==
    last.handler = "sensor_state_listener" =>
      /\ self.dry_temp_value = Polled.dry_temp_value
      /\ self.rel_hum_value = Polled.rel_hum_value
      /\ self.attr_native_value = Polled.attr_native_value

\* The configuration of the entity: channel ids and precision.
Configuration(s) == <<s.entity_dry_temp, s.entity_rel_hum, s.decimal_places>>

\* C13: a step in which the host changes the reading of entity eid while the
\* listener is attached re-normalizes that channel only, leaves the other
\* cached value and the configuration as they were, stores the derived output
\* of the new pair and publishes once; for an entity that is neither channel
\* the entity is left as it was and nothing is published.
C13_NotificationUpdatesOneChannel ==
    [][\A eid \in EntityIds :
         (tracking /\ states'[eid] # states[eid]) =>
           /\ Configuration(self') = Configuration(self)
           /\ eid = self.entity_dry_temp =>
                /\ self'.dry_temp_value = parse_temp_state(states'[eid])
                /\ self'.rel_hum_value = self.rel_hum_value
                /\ self'.attr_native_value = DerivedOutput(self')
                /\ last'.wrote = 1
           /\ eid = self.entity_rel_hum =>
                /\ self'.rel_hum_value = parse_hum_state(states'[eid])
                /\ self'.dry_temp_value = self.dry_temp_value
                /\ self'.attr_native_value = DerivedOutput(self')
                /\ last'.wrote = 1
           /\ eid \notin {self.entity_dry_temp, self.entity_rel_hum} =>
                /\ self' = self
                /\ last'.wrote = 0]_vars

\* The handlers of the event loop that read or write the cached pair or the
\* subscriptions.
LoopHandlers == {"async_update", "sensor_state_listener", "async_will_remove_from_hass"}

\* No handler of the event loop runs while the delayed first read is between
\* its first and its last step.
NotInterleaved == Running => last.handler \notin LoopHandlers

\* What atomicity gives: when the delayed first read has just ended normally,
\* the cached pair is the normalized pair of the host's current readings.
FirstReadIsCurrent ==
    (last.handler = "_initial_refresh" /\ thr.pc = "done" /\ last.raised = "none") =>
      /\ self.dry_temp_value = parse_temp_state(TempChannel)
      /\ self.rel_hum_value = parse_hum_state(HumChannel)

\* C14: the handlers run one at a time, the delayed first read included: none
\* of them runs in the middle of another, and the first read therefore ends
\* with the pair it read still current.
C14_HandlersAreAtomic == NotInterleaved /\ FirstReadIsCurrent

\* The delayed first read has just ended with its publish.
FirstReadPublished ==
    last.handler = "_initial_refresh" /\ thr.pc = "done" /\ last.wrote = 1

\* C15: from Armed (timer pending), unless the entity is torn down, the timer
\* fires and the first read runs to its publish; the controller is then Live.
C15_ArmedLeadsToFirstRead ==
    (timer = "pending") ~>
       (lifecycle = "removed" \/ (FirstReadPublished /\ ControllerState = "live"))

\* C16: every teardown step, from whichever controller state, raises nothing
\* and leaves the listener detached, both handles cleared and no timer
\* pending; a teardown of an entity already torn down changes nothing.
C16_TeardownIdempotentAndSafe ==
    [][last'.handler = "async_will_remove_from_hass" =>
         /\ last'.raised = "none"
         /\ ~tracking' /\ ~self'.unsub_listener /\ ~self'.startup_handle
         /\ timer' # "pending"
         /\ lifecycle = "removed" =>
              (self' = self /\ tracking' = tracking /\ timer' = timer)]_vars

\* The cached pair and the native value of the entity.
Cache(s) == <<s.dry_temp_value, s.rel_hum_value, s.attr_native_value>>

\* C17 as stated: while the controller is Uninitialized no listener is
\* attached, both cached inputs are None and so is the native value.
C17_UninitializedHasNoCache ==
    (lifecycle # "none" /\ ControllerState = "uninitialized") =>
      (~tracking /\ Cache(self) = <<None, None, None>>)

\* C17 as amended: while the controller is Uninitialized no listener is
\* attached and the delayed first read has not started; the cached pair and
\* the native value change in that state through a poll only.
C17_UninitializedPolledOnly ==
    [][ControllerState' = "uninitialized" =>
         /\ ~tracking' /\ thr'.pc = "idle"
         /\ Cache(self') # Cache(self) => last'.handler = "async_update"]_vars

\* The poll made before the entity is added has cached both inputs and a dew
\* point while the controller is Uninitialized.
C17_Witness ==
    /\ ControllerState = "uninitialized" /\ ~tracking
    /\ last.handler = "async_update" /\ lifecycle = "polled"
    /\ self.dry_temp_value = Num(25 * Scale)
    /\ self.rel_hum_value = Num(6000)
    /\ IsNum(self.attr_native_value)

\* C18: after a poll or a change notification that leaves the humidity
\* fraction 0.0 cached beside a temperature, the calculator's result for the
\* pair is None, no exception was raised, the native value is None, and the
\* attributes show the temperature and the humidity 0.0.
C18_ZeroHumidityIsUnknown ==
    (last.handler \in {"async_update", "sensor_state_listener"}
       /\ self.rel_hum_value = Num(0) /\ self.dry_temp_value # None) =>
      /\ calculate_dew_point_arden_buck(self.dry_temp_value, self.rel_hum_value) = None
      /\ last.raised = "none"
      /\ self.attr_native_value = None
      /\ Reading(self).attributes.temperature = self.dry_temp_value
      /\ Reading(self).attributes.humidity = Num(0)

\* C19: once the entity is torn down, no step other than a repeated teardown
\* changes the controller: the fields of the entity, the subscription, the
\* timer and the delayed first read stay as they are and nothing is published.
C19_NothingAfterTeardown ==
    [][(lifecycle = "removed" /\ last'.handler # "async_will_remove_from_hass") =>
         /\ self' = self
         /\ tracking' = tracking
         /\ timer' = timer
         /\ thr'.pc = thr.pc
         /\ last'.wrote = 0]_vars

\* C20: an added entity is eventually torn down or Live with the state
\* listener having been attached and the delayed first read run to its end,
\* whether the host signalled its start before or after the entity was added.
C20_AddedLeadsToLive ==
    (lifecycle = "added") ~>
       (lifecycle = "removed" \/ (ControllerState = "live" /\ thr.pc = "done"))

====
